---- MODULE Spec2Model ----
(***************************************************************************)
(* footron_web_build: the WebBuilder build pipeline (build.py) and the     *)
(* experience registry it is constructed with.                             *)
(*                                                                         *)
(* Spec         : build() runs of NumBuilders builders that share one      *)
(*                finished_build_path, interleaved stage by stage.         *)
(* SpecRegistry : WebBuilder.__init__ over a list of candidate directories *)
(*                followed by _link_controls over the resulting list.      *)
(***************************************************************************)
EXTENDS Integers, Sequences, FiniteSets, TLC

\* Number of WebBuilder objects whose build() runs target the same output path.
NumBuilders == 2

Builders == 1..NumBuilders

\* What finished_build_path holds when it is on disk before any build() call;
\* owner 0 is whoever put it there.
PreExistingFiles == {<<0, "published">>}

VARIABLES
    debug,          \* WebBuilder._debug, per builder
    pc,             \* position of each build() call
    workspace,      \* WebBuilder._output_path: "src", "tmp" or "out"
    err,            \* the stage whose exception is propagating, or "none"
    trace,          \* per builder: the stages run, with the path they used
    ops,            \* per builder: kinds of filesystem mutation performed
    existedAtCall,  \* per builder: finished_build_path existed when build() was called
    tmpExists,      \* per builder: the TemporaryDirectory is on disk
    tmpFiles,       \* per builder: what the temporary directory holds
    outExists,      \* finished_build_path is on disk
    outCreator,     \* who created finished_build_path
    outFiles,       \* what finished_build_path holds: <<owner, item>>
    inputWrites,    \* writes into web_source_path or an experience directory
    candidates,     \* experience_paths: the candidate directories, in order
    generate_colors,\* WebBuilder.__init__'s generate_colors argument
    rpc,            \* position of the registry run
    experiences,    \* WebBuilder.experiences
    initError,      \* the exception WebBuilder.__init__ raised, and for which path
    genExists,      \* <workspace>/src/controls/generated is on disk
    genEntries,     \* the entries of that directory
    index,          \* what _link_controls wrote to index.ts
    colorCalls,     \* the paths _calculate_colors was invoked for
    staticOut,      \* what _add_static_assets put under the static path
    colorOutput,    \* what __main__ wrote to --color-output-path
    hsl,            \* the dominant color colorgram extracted, channels / 255
    cpc,            \* position of the _calculate_colors run
    computed,       \* the HSL triples _calculate_colors hands to rgb()
    srcTree,        \* the entries of web_source_path
    wsTree,         \* the entries of the workspace after staging
    spc             \* position of the staging run

buildVars == <<debug, pc, workspace, err, trace, ops, existedAtCall,
               tmpExists, tmpFiles, outExists, outCreator, outFiles,
               inputWrites>>

regVars == <<candidates, generate_colors, rpc, experiences, initError,
             genExists, genEntries, index, colorCalls, staticOut, colorOutput>>

colorVars == <<hsl, cpc, computed>>

stagingVars == <<srcTree, wsTree, spc>>

auxVars == <<colorVars, stagingVars>>

vars == <<buildVars, regVars, auxVars>>

Items == {"source", "generated", "build", "static", "published"}

\* The order of the stage calls in WebBuilder.build for a mode.
StageOrder(d) ==
    IF d THEN <<"stage_source", "link_controls", "add_static_assets">>
    ELSE <<"stage_source", "link_controls", "yarn_build",
           "add_static_assets", "publish">>

-----------------------------------------------------------------------------
(* BuildPath *)

\* Variant: __enter__ without the debug test.
EnterPath_AlwaysTemp(d) == "tmp"

\* Variant: __enter__ that always hands out the output directory.
EnterPath_AlwaysOutput(d) == "out"

\* BuildPath.__enter__: the path the with statement binds to _output_path.
EnterPath(d) == IF d THEN "out" ELSE "tmp"

\* Variant: the with statement without its "as self._output_path", which
\* leaves _output_path at the web_source_path __init__ put there.
WithTarget_Unbound(path) == "src"

\* build(): "with BuildPath(...) as self._output_path" binds what __enter__
\* returned.
WithTarget(path) == path

\* build(), the with statement's entry.  tempfile.TemporaryDirectory() creates
\* the directory at once and may fail; then the with body never runs and
\* __exit__ is not called.
BuildPathEnter(b) ==
    /\ pc[b] = "idle"
    /\ existedAtCall' = [existedAtCall EXCEPT ![b] = outExists]
    /\ IF EnterPath(debug[b]) = "out"
       THEN /\ workspace' = [workspace EXCEPT ![b] = WithTarget("out")]
            /\ pc' = [pc EXCEPT ![b] = "entered"]
            /\ UNCHANGED <<err, ops, tmpExists>>
       ELSE \E allocated \in BOOLEAN :
              IF allocated
              THEN /\ tmpExists' = [tmpExists EXCEPT ![b] = TRUE]
                   /\ ops' = [ops EXCEPT ![b] = @ \cup {"mktemp"}]
                   /\ workspace' = [workspace EXCEPT ![b] = WithTarget("tmp")]
                   /\ pc' = [pc EXCEPT ![b] = "entered"]
                   /\ UNCHANGED err
              ELSE /\ pc' = [pc EXCEPT ![b] = "raised"]
                   /\ err' = [err EXCEPT ![b] = "acquire"]
                   /\ UNCHANGED <<workspace, ops, tmpExists>>
    /\ UNCHANGED <<debug, trace, tmpFiles, outExists, outCreator, outFiles,
                   inputWrites>>
    /\ UNCHANGED <<regVars, auxVars>>

\* Variant: __exit__ without the debug test.
ExitCleanup_Always(b) == TRUE

\* Variant: __exit__ that returns without cleaning up.
ExitCleanup_Never(b) == FALSE

\* BuildPath.__exit__: whether the exit removes the temporary directory.
ExitCleanup(b) == workspace[b] = "tmp"

\* TemporaryDirectory's cleanup is shutil.rmtree, which unlinks a symbolic
\* link and never descends into its target: the entries of experience
\* directories deleted through the links of the workspace.
RemovedThroughLinks(b, files) == {}

\* BuildPath.__exit__, on return and on exception alike.
BuildPathExit(b) ==
    /\ pc[b] = "exiting"
    /\ pc' = [pc EXCEPT ![b] = IF err[b] = "none" THEN "returned" ELSE "raised"]
    /\ IF ExitCleanup(b)
       THEN /\ tmpExists' = [tmpExists EXCEPT ![b] = FALSE]
            /\ tmpFiles' = [tmpFiles EXCEPT ![b] = {}]
            /\ ops' = [ops EXCEPT ![b] = @ \cup {"rmtemp"}]
            /\ inputWrites' = inputWrites \cup RemovedThroughLinks(b, tmpFiles[b])
       ELSE UNCHANGED <<tmpExists, tmpFiles, ops, inputWrites>>
    /\ UNCHANGED <<debug, workspace, err, trace, existedAtCall,
                   outExists, outCreator, outFiles>>
    /\ UNCHANGED <<regVars, auxVars>>

-----------------------------------------------------------------------------
(* WebBuilder.build and its stages *)

\* The stage wrote `item` under the workspace path (creating an absent output
\* directory when the workspace is the output path).
WriteWorkspace(b, item, op) ==
    /\ ops' = [ops EXCEPT ![b] = @ \cup {op}]
    /\ IF workspace[b] = "out"
       THEN /\ outFiles' = outFiles \cup {<<b, item>>}
            /\ outExists' = TRUE
            /\ outCreator' = IF outExists THEN outCreator ELSE b
            /\ UNCHANGED <<tmpFiles, inputWrites>>
       ELSE IF workspace[b] = "tmp"
       THEN /\ tmpFiles' = [tmpFiles EXCEPT ![b] = @ \cup {item}]
            /\ UNCHANGED <<outExists, outCreator, outFiles, inputWrites>>
       ELSE /\ inputWrites' = inputWrites \cup {<<b, item>>}
            /\ UNCHANGED <<tmpFiles, outExists, outCreator, outFiles>>

NoWrite == UNCHANGED <<ops, tmpFiles, outExists, outCreator, outFiles, inputWrites>>

\* History: the stage ran, on which path, whether it succeeded and whether
\* finished_build_path was on disk when it started.
Ran(b, stage, ok) ==
    trace' = [trace EXCEPT ![b] =
                Append(@, [stage |-> stage, path |-> workspace[b], ok |-> ok,
                           existed |-> outExists])]

Fail(b, stage) ==
    /\ pc' = [pc EXCEPT ![b] = "exiting"]
    /\ err' = [err EXCEPT ![b] = stage]

Goto(b, next) ==
    /\ pc' = [pc EXCEPT ![b] = next]
    /\ UNCHANGED err

\* build(): the finished_build_path.exists() test inside the with body.
CheckOutput(b) ==
    /\ pc[b] = "entered"
    /\ IF outExists THEN Fail(b, "exists") ELSE Goto(b, "checked")
    /\ UNCHANGED <<debug, workspace, trace, ops, existedAtCall,
                   tmpExists, tmpFiles, outExists, outCreator, outFiles,
                   inputWrites>>
    /\ UNCHANGED <<regVars, auxVars>>

\* A filesystem stage ends "ok", or raises having written part of its output
\* ("partial") or nothing ("none").
Outcomes == {"ok", "partial", "none"}

\* _copy_source_to_output_dir: copytree(web_source_path, _output_path,
\* dirs_exist_ok=True).
CopySourceToOutputDir(b) ==
    /\ pc[b] = "checked"
    /\ \E r \in Outcomes :
         /\ Ran(b, "stage_source", r = "ok")
         /\ IF r = "none" THEN NoWrite ELSE WriteWorkspace(b, "source", "copy")
         /\ IF r = "ok" THEN Goto(b, "staged") ELSE Fail(b, "stage_source")
    /\ UNCHANGED <<debug, workspace, existedAtCall, tmpExists>>
    /\ UNCHANGED <<regVars, auxVars>>

\* _link_controls: rmtree + mkdir of the generated directory, one symlink per
\* experience with controls, index.ts.  rmtree raises when the staged tree has
\* no generated directory; symlink_to raises on a name already taken.
LinkControls(b) ==
    /\ pc[b] = "staged"
    /\ \E r \in Outcomes :
         /\ Ran(b, "link_controls", r = "ok")
         /\ IF r = "none" THEN NoWrite ELSE WriteWorkspace(b, "generated", "link")
         /\ IF r = "ok" THEN Goto(b, "linked") ELSE Fail(b, "link_controls")
    /\ UNCHANGED <<debug, workspace, existedAtCall, tmpExists>>
    /\ UNCHANGED <<regVars, auxVars>>

\* Variant: the returncode is not looked at.
YarnFailed_Ignored(returncode) == FALSE

\* _yarn_build: the returncode test.
YarnFailed(returncode) == returncode # 0

\* build(): "if not self._debug" before _yarn_build and _copy_build_to_finished_dir.
SkipsCompileAndPublish(b) == debug[b]

\* _yarn_build: subprocess.run(["yarn", "build"], cwd=_output_path).
YarnBuild(b) ==
    /\ pc[b] = "linked"
    /\ ~SkipsCompileAndPublish(b)
    /\ \E returncode \in {0, 1}, wrote \in BOOLEAN :
         /\ returncode = 0 => wrote
         /\ Ran(b, "yarn_build", returncode = 0)
         /\ IF wrote THEN WriteWorkspace(b, "build", "compile") ELSE NoWrite
         /\ IF YarnFailed(returncode) THEN Fail(b, "yarn_build")
                                      ELSE Goto(b, "compiled")
    /\ UNCHANGED <<debug, workspace, existedAtCall, tmpExists>>
    /\ UNCHANGED <<regVars, auxVars>>

\* _add_static_assets: three mkdir(parents=True) calls, then the copies of each
\* experience's static controls, thumb.jpg and wide.jpg.
AddStaticAssets(b) ==
    /\ pc[b] = IF SkipsCompileAndPublish(b) THEN "linked" ELSE "compiled"
    /\ \E r \in Outcomes :
         /\ Ran(b, "add_static_assets", r = "ok")
         /\ IF r = "none" THEN NoWrite ELSE WriteWorkspace(b, "static", "copy")
         /\ IF r = "ok"
            THEN Goto(b, IF SkipsCompileAndPublish(b) THEN "exiting" ELSE "assembled")
            ELSE Fail(b, "add_static_assets")
    /\ UNCHANGED <<debug, workspace, existedAtCall, tmpExists>>
    /\ UNCHANGED <<regVars, auxVars>>

\* Variant: copytree called with dirs_exist_ok=True.
DestinationTaken_Merge(exists) == FALSE

\* shutil.copytree without dirs_exist_ok: os.makedirs(dst) raises on an
\* existing destination.
DestinationTaken(exists) == exists

\* _copy_build_to_finished_dir, first half: copytree lists the source and
\* creates finished_build_path (one atomic mkdir of the last component).
PublishMkdir(b) ==
    /\ pc[b] = "assembled"
    /\ ~SkipsCompileAndPublish(b)
    /\ \E created \in BOOLEAN :
         LET ok == created /\ ~DestinationTaken(outExists) IN
         /\ Ran(b, "publish", ok)
         /\ IF ok
            THEN /\ outExists' = TRUE
                 /\ outCreator' = IF outExists THEN outCreator ELSE b
                 /\ ops' = [ops EXCEPT ![b] = @ \cup {"mkdir"}]
                 /\ Goto(b, "publishing")
            ELSE /\ Fail(b, "publish")
                 /\ UNCHANGED <<outExists, outCreator, ops>>
    /\ UNCHANGED <<debug, workspace, existedAtCall, tmpExists, tmpFiles, outFiles,
                   inputWrites>>
    /\ UNCHANGED <<regVars, auxVars>>

\* _copy_build_to_finished_dir, second half: the entries are copied; copytree
\* collects the errors of single copies and raises them at the end.
PublishCopy(b) ==
    /\ pc[b] = "publishing"
    /\ \E r \in Outcomes :
         /\ trace' = [trace EXCEPT ![b][Len(trace[b])].ok = (r = "ok")]
         /\ IF r = "none"
            THEN UNCHANGED <<outFiles, ops>>
            ELSE /\ outFiles' = outFiles \cup {<<b, "published">>}
                 /\ ops' = [ops EXCEPT ![b] = @ \cup {"copy"}]
         /\ IF r = "ok" THEN Goto(b, "exiting") ELSE Fail(b, "publish")
    /\ UNCHANGED <<debug, workspace, existedAtCall, tmpExists, tmpFiles,
                   outExists, outCreator, inputWrites>>
    /\ UNCHANGED <<regVars, auxVars>>


-----------------------------------------------------------------------------
(* Experience directories *)

\* Longest experience_paths list explored.
MaxCandidates == 2

ExperienceIds == {"alpha", "beta"}

ExperienceTypes == {"video", "image"}

\* The "scrubbing" key of a config: missing, the booleans, or the number 1.
ScrubbingValues == {"absent", "true", "false", "one"}

\* A config file that parses to a mapping with id, type and maybe scrubbing.
ConfigDoc(id, type, scrubbing) ==
    [present |-> TRUE, parses |-> TRUE, hasId |-> TRUE, hasType |-> TRUE,
     id |-> id, type |-> type, scrubbing |-> scrubbing]

AbsentFile ==
    [present |-> FALSE, parses |-> FALSE, hasId |-> FALSE, hasType |-> FALSE,
     id |-> "", type |-> "", scrubbing |-> "absent"]

UnparseableFile == [AbsentFile EXCEPT !.present = TRUE]

NoIdFile == [ConfigDoc("", "video", "absent") EXCEPT !.hasId = FALSE]

NoTypeFile == [ConfigDoc("alpha", "", "absent") EXCEPT !.hasType = FALSE]

MalformedFiles == {UnparseableFile, NoIdFile, NoTypeFile}

\* An experience directory: its config files, controls/lib, wide.jpg,
\* thumb.jpg and controls/static.
Dir(json, toml, lib, wide, thumb, static) ==
    [json |-> json, toml |-> toml, lib |-> lib, wide |-> wide, thumb |-> thumb,
     static |-> static]

\* Directories that differ in config content and in controls/lib.
ControlDirs ==
    {Dir(ConfigDoc(id, "video", s), AbsentFile, lib, "absent", FALSE, FALSE) :
        id \in ExperienceIds, s \in ScrubbingValues, lib \in BOOLEAN}
    \cup
    {Dir(ConfigDoc(id, "image", "true"), AbsentFile, lib, "absent", FALSE, FALSE) :
        id \in ExperienceIds, lib \in BOOLEAN}

\* Directories that differ in which config files they hold and how well formed.
ConfigDirs ==
    {Dir(json, toml, FALSE, "absent", FALSE, FALSE) :
        json \in {AbsentFile, ConfigDoc("alpha", "video", "true")} \cup MalformedFiles,
        toml \in {AbsentFile, ConfigDoc("beta", "image", "absent"), UnparseableFile}}

\* Directories that differ in their wide.jpg and thumb.jpg.
ImageDirs ==
    {Dir(ConfigDoc("alpha", "video", "true"), AbsentFile, FALSE, wide, thumb, FALSE) :
        wide \in {"absent", "ok", "undecodable"}, thumb \in BOOLEAN}

\* Directories that differ in which of the three static assets they hold.
AssetDirs ==
    {Dir(ConfigDoc(id, "image", "absent"), AbsentFile, FALSE, wide, thumb, static) :
        id \in ExperienceIds, wide \in {"absent", "ok"}, thumb \in BOOLEAN,
        static \in BOOLEAN}

CandidateDirs == ControlDirs \cup ConfigDirs \cup ImageDirs \cup AssetDirs

CandidateLists == UNION {[1..n -> CandidateDirs] : n \in 0..MaxCandidates}

-----------------------------------------------------------------------------
(* Experience *)

\* Variant: only "id" is read.
RequiredKeysPresent_IdOnly(file) == file.hasId

\* _load_config: self.config["id"] and self.config["type"] raise KeyError.
RequiredKeysPresent(file) == file.hasId /\ file.hasType

\* Experience._load_config: config.json when it exists, else config.toml.
LoadConfig(dir) ==
    LET is_json == dir.json.present
        file == IF is_json THEN dir.json ELSE dir.toml
    IN  IF ~file.present THEN [ok |-> FALSE, error |-> "FileNotFoundError", config |-> file]
        ELSE IF ~file.parses THEN [ok |-> FALSE, error |-> "DecodeError", config |-> file]
        ELSE IF ~RequiredKeysPresent(file) THEN [ok |-> FALSE, error |-> "KeyError", config |-> file]
        ELSE [ok |-> TRUE, error |-> "none", config |-> file]

\* Experience._calculate_colors: colorgram.extract on wide.jpg raises when the
\* image cannot be decoded; nothing catches it.
CalculateColors(dir) ==
    IF dir.wide = "ok" THEN [ok |-> TRUE, colors |-> "computed"]
    ELSE [ok |-> FALSE, colors |-> "unset"]

\* Variant: thumb.jpg is not asked for.
WantsColors_WideOnly(dir, gen) == gen /\ dir.wide # "absent"

\* Experience.__init__: the test that guards _calculate_colors.
WantsColors(dir, gen) == gen /\ dir.wide # "absent" /\ dir.thumb

\* Experience.__init__ for the directory at position path of the candidates.
\* An Experience whose colors were not calculated has no colors attribute
\* ("unset").
NewExperience(dir, path, gen) ==
    LET loaded == LoadConfig(dir)
        exp == [path |-> path, id |-> loaded.config.id, type |-> loaded.config.type,
                scrubbing |-> loaded.config.scrubbing, colors |-> "unset"]
    IN  IF ~loaded.ok
        THEN [ok |-> FALSE, error |-> loaded.error, exp |-> exp, called |-> FALSE]
        ELSE IF WantsColors(dir, gen)
             THEN LET c == CalculateColors(dir)
                  IN  IF c.ok THEN [ok |-> TRUE, error |-> "none", called |-> TRUE,
                                    exp |-> [exp EXCEPT !.colors = c.colors]]
                      ELSE [ok |-> FALSE, error |-> "ImageError", exp |-> exp,
                            called |-> TRUE]
             ELSE [ok |-> TRUE, error |-> "none", exp |-> exp, called |-> FALSE]

-----------------------------------------------------------------------------
(* WebBuilder.__init__ *)

\* Variant: the filter looks for config.json alone.
HasConfig_JsonOnly(dir) == dir.json.present

\* __init__: the filter's lambda over experience_paths.
HasConfig(dir) == dir.json.present \/ dir.toml.present

\* __init__: the paths that pass the filter, in list order.
FilteredPaths(cands) ==
    SelectSeq([i \in 1..Len(cands) |-> i], LAMBDA i : HasConfig(cands[i]))

\* __init__: map(Experience, ...) over the filtered paths; the first exception
\* ends the construction.
RECURSIVE MapExperiences(_, _, _, _, _)
MapExperiences(cands, paths, gen, k, acc) ==
    IF k > Len(paths)
    THEN [ok |-> TRUE, error |-> "none", at |-> 0,
          experiences |-> acc.experiences, calls |-> acc.calls]
    ELSE LET e == NewExperience(cands[paths[k]], paths[k], gen)
             calls == IF e.called THEN acc.calls \cup {paths[k]} ELSE acc.calls
         IN  IF e.ok
             THEN MapExperiences(cands, paths, gen, k + 1,
                    [experiences |-> Append(acc.experiences, e.exp), calls |-> calls])
             ELSE [ok |-> FALSE, error |-> e.error, at |-> paths[k],
                   experiences |-> <<>>, calls |-> calls]

NoError == [error |-> "none", at |-> 0]

\* WebBuilder.__init__.
Construct ==
    /\ rpc = "start"
    /\ LET r == MapExperiences(candidates, FilteredPaths(candidates),
                               generate_colors, 1,
                               [experiences |-> <<>>, calls |-> {}])
       IN  /\ rpc' = IF r.ok THEN "constructed" ELSE "failed"
           /\ experiences' = r.experiences
           /\ initError' = [error |-> r.error, at |-> r.at]
           /\ colorCalls' = r.calls
    /\ UNCHANGED <<candidates, generate_colors, genExists, genEntries, index,
                   staticOut, colorOutput>>
    /\ UNCHANGED <<buildVars, auxVars>>

-----------------------------------------------------------------------------
(* WebBuilder._link_controls *)

FallbackImport == "import VideoScrubber from \"../VideoScrubber\";"

\* i is enumerate's index, counted from 0.
ImportLine(i, id) == "import Controls" \o ToString(i) \o " from \"./" \o id \o "\";"

ControlsEntry(i, id) == "[\"" \o id \o "\", Controls" \o ToString(i) \o "]"

ScrubberEntry(id) == "[\"" \o id \o "\", VideoScrubber]"

\* Variant: the type test is left out.
UsesVideoScrubber_AnyType(exp) == exp.scrubbing = "true"

\* _link_controls: the elif test: type == "video", "scrubbing" in config and
\* config["scrubbing"] is True.
UsesVideoScrubber(exp) ==
    /\ exp.type = "video"
    /\ exp.scrubbing # "absent"
    /\ exp.scrubbing = "true"

\* Variant: a link replaces an entry of its name.
NameTaken_Overwrite(entries, id) == FALSE

\* Path.symlink_to raises FileExistsError when the directory has an entry of
\* that name.
NameTaken(entries, id) == \E e \in entries : e.name = id

\* _link_controls: the loop over enumerate(self.experiences), from the k-th
\* experience on.  symlink_to raises when the name is taken.
RECURSIVE LinkLoop(_, _, _, _)
LinkLoop(cands, exps, k, acc) ==
    IF k > Len(exps) THEN acc
    ELSE LET exp == exps[k] IN
         IF cands[exp.path].lib
         THEN IF NameTaken(acc.entries, exp.id)
              THEN [acc EXCEPT !.ok = FALSE]
              ELSE LinkLoop(cands, exps, k + 1,
                     [acc EXCEPT
                        !.entries = @ \cup {[name |-> exp.id, kind |-> "link",
                                             target |-> exp.path]},
                        !.imports = Append(@, ImportLine(k - 1, exp.id)),
                        !.map = Append(@, ControlsEntry(k - 1, exp.id))])
         ELSE IF UsesVideoScrubber(exp)
         THEN LinkLoop(cands, exps, k + 1,
                     [acc EXCEPT !.map = Append(@, ScrubberEntry(exp.id))])
         ELSE LinkLoop(cands, exps, k + 1, acc)

\* ",\n".join(map_entries), as the lines it makes once put after the
\* template's two spaces.
RECURSIVE JoinEntries(_, _)
JoinEntries(map, k) ==
    IF Len(map) = 0 THEN <<"  ">>
    ELSE IF k = Len(map) THEN <<(IF k = 1 THEN "  " ELSE "") \o map[k]>>
    ELSE <<(IF k = 1 THEN "  " ELSE "") \o map[k] \o ",">> \o JoinEntries(map, k + 1)

\* _CONTROLS_INDEX_TEMPLATE % (imports, entries), line by line.
IndexContent(imports, map) ==
    imports
    \o <<"const controls: Map<string, () => JSX.Element> = new Map([">>
    \o JoinEntries(map, 1)
    \o <<"]);", "export default controls;">>

NoIndex == [written |-> FALSE, imports |-> <<>>, map |-> <<>>, content |-> <<>>]

IndexFile == [name |-> "index.ts", kind |-> "file", target |-> 0]

\* What the staged source tree holds in src/controls/generated when it has
\* that directory: the development build's test output.
StagedGenerated ==
    {IndexFile, [name |-> "alpha", kind |-> "dir", target |-> 0]}

\* Variant: the directory is kept as staged.
ClearedGenerated_Keep(entries) == entries

\* _link_controls: shutil.rmtree then mkdir leave the directory empty.
ClearedGenerated(entries) == {}

\* WebBuilder._link_controls on the constructed builder.
LinkControlsIndex ==
    /\ rpc = "constructed"
    /\ IF ~genExists
       THEN \* shutil.rmtree raises FileNotFoundError
            /\ rpc' = "link_failed"
            /\ UNCHANGED <<genExists, genEntries, index>>
       ELSE LET r == LinkLoop(candidates, experiences, 1,
                        [ok |-> TRUE, entries |-> ClearedGenerated(genEntries),
                         imports |-> <<FallbackImport>>, map |-> <<>>])
            IN  /\ genExists' = TRUE
                /\ IF r.ok
                   THEN /\ rpc' = "linked"
                        /\ genEntries' = r.entries \cup {IndexFile}
                        /\ index' = [written |-> TRUE, imports |-> r.imports,
                                     map |-> r.map,
                                     content |-> IndexContent(r.imports, r.map)]
                   ELSE /\ rpc' = "link_failed"
                        /\ genEntries' = r.entries
                        /\ UNCHANGED index
    /\ UNCHANGED <<candidates, generate_colors, experiences, initError,
                   colorCalls, staticOut, colorOutput>>
    /\ UNCHANGED <<buildVars, auxVars>>

-----------------------------------------------------------------------------
(* WebBuilder._add_static_assets *)

IconName(id) == id \o ".jpg"

\* Variant: the thumbnail is copied only next to a wide image.
CopiesThumb_NeedsWide(dir) == dir.thumb /\ dir.wide # "absent"

\* _add_static_assets: experience.thumb_image_path.exists().
CopiesThumb(dir) == dir.thumb

\* shutil.copyfile(src, dst): dst is written, replacing a file of that name.
CopyFile(files, dir, name, from) ==
    {f \in files : ~(f.dir = dir /\ f.name = name)}
    \cup {[dir |-> dir, name |-> name, from |-> from]}

\* _add_static_assets: the loop over self.experiences, from the k-th one on.
\* copytree raises when experiences/<id> is already there.
RECURSIVE StaticLoop(_, _, _, _)
StaticLoop(cands, exps, k, acc) ==
    IF k > Len(exps) THEN acc
    ELSE LET exp == exps[k]
             dir == cands[exp.path]
             taken == \E f \in acc.files : f.dir = "experiences" /\ f.name = exp.id
             f1 == IF dir.static
                   THEN acc.files \cup {[dir |-> "experiences", name |-> exp.id,
                                         from |-> exp.path]}
                   ELSE acc.files
             f2 == IF CopiesThumb(dir)
                   THEN CopyFile(f1, "thumbs", IconName(exp.id), exp.path) ELSE f1
             f3 == IF dir.wide # "absent"
                   THEN CopyFile(f2, "wide", IconName(exp.id), exp.path) ELSE f2
         IN  IF dir.static /\ taken
             THEN [acc EXCEPT !.error = "copytree"]
             ELSE StaticLoop(cands, exps, k + 1, [acc EXCEPT !.files = f3])

NoStatic == [error |-> "none", files |-> {}]

\* WebBuilder._add_static_assets on the linked workspace.  The three
\* mkdir(parents=True) calls raise when the compiled or staged tree already
\* has one of the directories.
AssembleStatic ==
    /\ rpc = "linked"
    /\ \E taken \in BOOLEAN :
         IF taken
         THEN /\ rpc' = "assemble_failed"
              /\ staticOut' = [error |-> "mkdir", files |-> {}]
         ELSE LET r == StaticLoop(candidates, experiences, 1, NoStatic)
              IN  /\ rpc' = IF r.error = "none" THEN "assembled" ELSE "assemble_failed"
                  /\ staticOut' = r
    /\ UNCHANGED <<candidates, generate_colors, experiences, initError,
                   genExists, genEntries, index, colorCalls, colorOutput>>
    /\ UNCHANGED <<buildVars, auxVars>>

-----------------------------------------------------------------------------
(* __main__ *)

\* __main__: the loop that fills color_data, from the k-th experience on; an
\* experience without colors attribute is skipped, a later id replaces an
\* earlier one.
RECURSIVE ColorData(_, _, _)
ColorData(exps, k, data) ==
    IF k > Len(exps) THEN data
    ELSE IF exps[k].colors = "unset" THEN ColorData(exps, k + 1, data)
    ELSE ColorData(exps, k + 1,
            {d \in data : d.id # exps[k].id}
            \cup {[id |-> exps[k].id, from |-> exps[k].path]})

NoColorOutput == [written |-> FALSE, data |-> {}]

\* __main__ after builder.build() has returned: "if color_output_path:",
\* where generate_colors = bool(color_output_path).
WriteColorOutput ==
    /\ rpc = "assembled"
    /\ generate_colors
    /\ rpc' = "dumped"
    /\ colorOutput' = [written |-> TRUE, data |-> ColorData(experiences, 1, {})]
    /\ UNCHANGED <<candidates, generate_colors, experiences, initError,
                   genExists, genEntries, index, colorCalls, staticOut>>
    /\ UNCHANGED <<buildVars, auxVars>>

-----------------------------------------------------------------------------
(* Experience._calculate_colors, on fixed-point channels *)

\* The divisor of "l / 255".
ChannelMax == 255

\* 1.0 as a fixed-point number: a channel value v stands for v / One, so that
\* k / 255 and every two-decimal literal of the code are whole numbers.
One == ChannelMax * 100

\* The literal n / 100 of the code (0.74 is Percent(74)).
Percent(n) == n * ChannelMax

Min(a, b) == IF a <= b THEN a ELSE b

Max(a, b) == IF a >= b THEN a ELSE b

\* The values l / 255 of one channel of colorgram's Hsl, l an integer in 0..255.
ChannelValues == {k * 100 : k \in 0..ChannelMax}

\* Dominant colors: every hue and saturation colorgram can give, and the hues
\* 0.5, 0.95 and the saturation 0.9 besides.
DominantColors ==
    [h : ChannelValues \cup {Percent(50), Percent(95)},
     s : ChannelValues \cup {Percent(90)},
     l : {0, One}]

\* Variant: the saturation is passed on as extracted.
ClampSaturation_None(s) == s

\* _calculate_colors: min(base_color[1], 0.74).
ClampSaturation(s) == Min(s, Percent(74))

\* Variant: the shifted hue is not wrapped.
ShiftHue_NoWrap(h, d) == h + d

\* _calculate_colors: (base_color[0] + d) % 1.
ShiftHue(h, d) == (h + d) % One

\* _calculate_colors: the three HSL triples given to rgb(); rgb and
\* rgb_to_hex of color_utils turn each into the stored hex string.
CalculateColorsHsl(c) ==
    LET base_color == [h |-> c.h, s |-> ClampSaturation(c.s), l |-> Percent(35)]
    IN  [secondary_dark |->
            [h |-> ShiftHue(base_color.h, Percent(10)),
             s |-> Max(base_color.s - Percent(15), 0),
             l |-> base_color.l + Percent(10)],
         secondary_light |->
            [h |-> ShiftHue(base_color.h, Percent(18)),
             s |-> Min((base_color.s * 3) \div 2, Percent(90)),
             l |-> Percent(94)],
         primary |->
            [h |-> base_color.h,
             s |-> Min(base_color.s, Percent(74)),
             l |-> Percent(35)]]

NoColor == [h |-> 0, s |-> 0, l |-> 0]

NoColors == [primary |-> NoColor, secondary_light |-> NoColor, secondary_dark |-> NoColor]

\* Experience._calculate_colors on a decodable wide.jpg.
CalculateColorsRun ==
    /\ cpc = "start"
    /\ cpc' = "done"
    /\ computed' = CalculateColorsHsl(hsl)
    /\ UNCHANGED <<hsl, stagingVars, buildVars, regVars>>

-----------------------------------------------------------------------------
(* WebBuilder._copy_source_to_output_dir, entry by entry *)

\* The entries a source tree may hold: path from web_source_path, and kind.
SourceEntries ==
    {[path |-> <<".git">>, kind |-> "dir"],
     [path |-> <<".git", "HEAD">>, kind |-> "file"],
     [path |-> <<"build">>, kind |-> "dir"],
     [path |-> <<"build", "index.html">>, kind |-> "file"],
     [path |-> <<".idea">>, kind |-> "dir"],
     [path |-> <<"src">>, kind |-> "dir"],
     [path |-> <<"src", "build">>, kind |-> "dir"],
     [path |-> <<"src", "App.tsx">>, kind |-> "file"],
     [path |-> <<"src", "shared">>, kind |-> "link"],
     [path |-> <<"package.json">>, kind |-> "file"],
     [path |-> <<"current">>, kind |-> "link"]}

\* A tree holds the directory of each of its nested entries.
IsTree(entries) ==
    \A e \in entries :
        Len(e.path) > 1 =>
            [path |-> SubSeq(e.path, 1, Len(e.path) - 1), kind |-> "dir"] \in entries

SourceTrees == {t \in SUBSET SourceEntries : IsTree(t)}

\* The arguments of shutil.ignore_patterns.
IgnorePatterns == {".git/", "build/", ".idea/"}

\* fnmatch of a name of a directory listing against a pattern without
\* wildcard characters.
FnMatch(name, pattern) == name = pattern

\* The function ignore_patterns returns: the names of a listing to skip.
Ignored(name) == \E pattern \in IgnorePatterns : FnMatch(name, pattern)

\* shutil.copytree(..., symlinks=True, ignore=...): an entry is copied, a
\* symbolic link as a link, unless its name or the name of a directory above
\* it is ignored.
CopyTree(tree) ==
    {e \in tree : \A i \in 1..Len(e.path) : ~Ignored(e.path[i])}

\* WebBuilder._copy_source_to_output_dir into a fresh workspace.
StageSourceTree ==
    /\ spc = "start"
    /\ spc' = "copied"
    /\ wsTree' = wsTree \cup CopyTree(srcTree)
    /\ UNCHANGED <<srcTree, colorVars, buildVars, regVars>>

AuxIdle ==
    /\ hsl = NoColor
    /\ cpc = "done"
    /\ computed = NoColors
    /\ srcTree = {}
    /\ wsTree = {}
    /\ spc = "copied"

-----------------------------------------------------------------------------

BuildIdle ==
    /\ debug = [b \in Builders |-> FALSE]
    /\ pc = [b \in Builders |-> "idle"]
    /\ workspace = [b \in Builders |-> "src"]
    /\ err = [b \in Builders |-> "none"]
    /\ trace = [b \in Builders |-> <<>>]
    /\ ops = [b \in Builders |-> {}]
    /\ existedAtCall = [b \in Builders |-> FALSE]
    /\ tmpExists = [b \in Builders |-> FALSE]
    /\ tmpFiles = [b \in Builders |-> {}]
    /\ outExists = FALSE
    /\ outCreator = 0
    /\ outFiles = {}
    /\ inputWrites = {}

RegistryIdle ==
    /\ candidates = <<>>
    /\ generate_colors = FALSE
    /\ rpc = "constructed"
    /\ experiences = <<>>
    /\ initError = NoError
    /\ genExists = FALSE
    /\ genEntries = {}
    /\ index = NoIndex
    /\ colorCalls = {}
    /\ staticOut = NoStatic
    /\ colorOutput = NoColorOutput

InitRegistry ==
    /\ BuildIdle
    /\ AuxIdle
    /\ candidates \in CandidateLists
    /\ generate_colors \in BOOLEAN
    /\ rpc = "start"
    /\ experiences = <<>>
    /\ initError = NoError
    /\ genExists \in BOOLEAN
    /\ genEntries = IF genExists THEN StagedGenerated ELSE {}
    /\ index = NoIndex
    /\ colorCalls = {}
    /\ staticOut = NoStatic
    /\ colorOutput = NoColorOutput

NextRegistry ==
    \/ Construct
    \/ LinkControlsIndex
    \/ AssembleStatic
    \/ WriteColorOutput

SpecRegistry == InitRegistry /\ [][NextRegistry]_vars

InitColors ==
    /\ BuildIdle
    /\ RegistryIdle
    /\ hsl \in DominantColors
    /\ cpc = "start"
    /\ computed = NoColors
    /\ srcTree = {}
    /\ wsTree = {}
    /\ spc = "copied"

NextColors == CalculateColorsRun

SpecColors == InitColors /\ [][NextColors]_vars

InitStaging ==
    /\ BuildIdle
    /\ RegistryIdle
    /\ hsl = NoColor
    /\ cpc = "done"
    /\ computed = NoColors
    /\ srcTree \in SourceTrees
    /\ wsTree = {}
    /\ spc = "start"

NextStaging == StageSourceTree

SpecStaging == InitStaging /\ [][NextStaging]_vars

Init ==
    /\ RegistryIdle
    /\ AuxIdle
    /\ debug \in [Builders -> BOOLEAN]
    /\ pc = [b \in Builders |-> "idle"]
    /\ workspace = [b \in Builders |-> "src"]
    /\ err = [b \in Builders |-> "none"]
    /\ trace = [b \in Builders |-> <<>>]
    /\ ops = [b \in Builders |-> {}]
    /\ existedAtCall = [b \in Builders |-> FALSE]
    /\ tmpExists = [b \in Builders |-> FALSE]
    /\ tmpFiles = [b \in Builders |-> {}]
    /\ outExists \in BOOLEAN
    /\ outCreator = 0
    /\ outFiles = IF outExists THEN PreExistingFiles ELSE {}
    /\ inputWrites = {}

Next ==
    \E b \in Builders :
        \/ BuildPathEnter(b)
        \/ CheckOutput(b)
        \/ CopySourceToOutputDir(b)
        \/ LinkControls(b)
        \/ YarnBuild(b)
        \/ AddStaticAssets(b)
        \/ PublishMkdir(b)
        \/ PublishCopy(b)
        \/ BuildPathExit(b)

Spec == Init /\ [][Next]_vars

-----------------------------------------------------------------------------
(* Properties of build() *)

\* Builder b has neither created finished_build_path nor put anything in it.
Untouched(b) ==
    /\ outCreator # b
    /\ \A f \in outFiles : f[1] # b

Finished(b) == pc[b] \in {"returned", "raised"}

\* C1: whenever build() is called while the final output path already exists,
\* it fails with the output-exists error and has performed no filesystem
\* mutation at all: no temporary directory was ever created and nothing was
\* copied, linked or deleted.
C1_PreconditionOrdering ==
    \A b \in Builders :
        (existedAtCall[b] /\ pc[b] # "idle") =>
            /\ ops[b] = {}
            /\ trace[b] = <<>>
            /\ err[b] \in {"none", "exists"}
            /\ Finished(b) => err[b] = "exists"

\* C2 as stated: every build() run that fails, in normal or debug mode and at
\* whatever stage, leaves the final output path as it was before the run.
C2_FailedBuildLeavesOutput ==
    \A b \in Builders : pc[b] = "raised" => Untouched(b)

\* C2, amended: a normal-mode build() run that fails at any stage before
\* publish (acquire, precondition, staging, control linking, compile,
\* static-asset assembly) leaves the final output path as it was.
C2_FailureBeforePublishLeavesOutput ==
    \A b \in Builders :
        (pc[b] = "raised" /\ ~debug[b] /\ err[b] # "publish") => Untouched(b)

C2_Witness ==
    \E b \in Builders :
        /\ ~debug[b]
        /\ pc[b] = "raised"
        /\ err[b] = "add_static_assets"
        /\ {"mktemp", "copy", "link", "compile", "rmtemp"} \subseteq ops[b]
        /\ Untouched(b)

\* C3: in non-debug mode, once build() has returned or raised, at whatever
\* stage it stopped, the temporary directory of that run is no longer on disk.
C3_WorkspaceCleanup ==
    \A b \in Builders :
        (~debug[b] /\ Finished(b)) => (~tmpExists[b] /\ tmpFiles[b] = {})

C3_Witness ==
    \E b, c \in Builders :
        /\ ~debug[b] /\ pc[b] = "returned" /\ "mktemp" \in ops[b] /\ ~tmpExists[b]
        /\ ~debug[c] /\ pc[c] = "raised" /\ "mktemp" \in ops[c] /\ ~tmpExists[c]

\* C4: the stages of one build() run happen in the order stage-source,
\* link-controls, compile, assemble-static-assets, publish (compile and publish
\* left out in debug mode); a stage runs only after the previous one succeeded,
\* so a failed stage is the last stage of its run.
C4_StrictStageSequencing ==
    \A b \in Builders :
        LET t == trace[b]
            order == StageOrder(debug[b])
        IN  /\ Len(t) <= Len(order)
            /\ \A i \in 1..Len(t) :
                 /\ t[i].stage = order[i]
                 /\ i < Len(t) => t[i].ok
            /\ err[b] # "none" => pc[b] \in {"exiting", "raised"}

C4_Witness ==
    \E b \in Builders :
        /\ ~debug[b]
        /\ pc[b] = "raised"
        /\ err[b] = "yarn_build"
        /\ Len(trace[b]) = 3
        /\ ~trace[b][3].ok

\* C5: a debug-mode build() run never invokes the compile subprocess, never
\* does the publish copy, allocates no temporary directory, and every stage of
\* it works on the final output path.
C5_DebugModeSkip ==
    \A b \in Builders :
        debug[b] =>
            /\ \A i \in 1..Len(trace[b]) :
                 /\ trace[b][i].stage \notin {"yarn_build", "publish"}
                 /\ trace[b][i].path = "out"
            /\ ops[b] \cap {"mktemp", "compile", "mkdir", "rmtemp"} = {}
            /\ ~tmpExists[b]
            /\ <<b, "published">> \notin outFiles
            /\ <<b, "build">> \notin outFiles
            /\ pc[b] # "idle" => workspace[b] = "out"

C5_Witness ==
    \E b \in Builders :
        /\ debug[b]
        /\ pc[b] = "returned"
        /\ Len(trace[b]) = 3
        /\ {<<b, "source">>, <<b, "generated">>, <<b, "static">>} \subseteq outFiles

\* C6: a publish stage that finds the final output path on disk fails and puts
\* nothing under it; of the builds racing for one output path at most one
\* publishes its files there.
C6_PublishNeverMerges ==
    /\ \A b \in Builders : \A i \in 1..Len(trace[b]) :
         (trace[b][i].stage = "publish" /\ trace[b][i].existed) =>
            /\ ~trace[b][i].ok
            /\ <<b, "published">> \notin outFiles
            /\ "mkdir" \notin ops[b]
            /\ err[b] = "publish"
    /\ Cardinality({b \in Builders : <<b, "published">> \in outFiles}) <= 1

C6_Witness ==
    \E b, c \in Builders :
        /\ b # c
        /\ ~existedAtCall[b] /\ ~existedAtCall[c]
        /\ pc[b] = "returned" /\ <<b, "published">> \in outFiles
        /\ pc[c] = "raised" /\ err[c] = "publish"
        /\ trace[c][Len(trace[c])].existed

-----------------------------------------------------------------------------
(* Properties of the registry and of the generated index *)

Built == rpc \notin {"start", "failed"}

\* The file _load_config reads in a directory.
SelectedFile(dir) == IF dir.json.present THEN dir.json ELSE dir.toml

Malformed(file) ==
    file.present /\ (~file.parses \/ ~file.hasId \/ ~file.hasType)

HasLib(k) == candidates[experiences[k].path].lib

ExpectedImports ==
    LET P == SelectSeq([k \in 1..Len(experiences) |-> k], HasLib)
    IN  <<FallbackImport>> \o
        [j \in 1..Len(P) |-> ImportLine(P[j] - 1, experiences[P[j]].id)]

ExpectedMap(Scrubs(_)) ==
    LET Q == SelectSeq([k \in 1..Len(experiences) |-> k],
                       LAMBDA k : HasLib(k) \/ Scrubs(experiences[k]))
    IN  [j \in 1..Len(Q) |->
            IF HasLib(Q[j]) THEN ControlsEntry(Q[j] - 1, experiences[Q[j]].id)
            ELSE ScrubberEntry(experiences[Q[j]].id)]

TruthyScrubbingVideo(exp) ==
    exp.type = "video" /\ exp.scrubbing \in {"true", "one"}

TrueScrubbingVideo(exp) ==
    exp.type = "video" /\ exp.scrubbing = "true"

\* C7 as stated: the generated module has the VideoScrubber import first, then
\* one import and one [id, Controls<i>] entry per experience with a controls
\* source directory, one [id, VideoScrubber] entry and no import per other
\* experience of the video kind whose scrubbing flag is truthy, nothing for the
\* rest, in list order.
C7_IndexContentTruthy ==
    rpc = "linked" =>
        /\ index.written
        /\ index.imports = ExpectedImports
        /\ index.map = ExpectedMap(TruthyScrubbingVideo)

\* C7, amended: as above, with the VideoScrubber entry for the experiences
\* without controls source directory that are of the video kind and whose
\* scrubbing flag is the boolean true itself (not merely truthy).
C7_IndexContent ==
    rpc = "linked" =>
        /\ index.written
        /\ index.imports = ExpectedImports
        /\ index.map = ExpectedMap(TrueScrubbingVideo)
        /\ index.content = IndexContent(ExpectedImports, ExpectedMap(TrueScrubbingVideo))

C7_Witness ==
    /\ rpc = "linked"
    /\ Len(experiences) = 2
    /\ experiences[1].id = "alpha" /\ HasLib(1)
    /\ experiences[2].id = "beta" /\ ~HasLib(2)
    /\ index.imports = <<FallbackImport, "import Controls0 from \"./alpha\";">>
    /\ index.map = <<"[\"alpha\", Controls0]", "[\"beta\", VideoScrubber]">>

\* C8: the registry holds exactly one Experience per candidate that has a
\* config.json or a config.toml, in the candidates' order; a candidate with
\* neither is dropped and never the cause of an error.
C8_RegistryFilteringAndOrder ==
    /\ Built =>
        /\ {experiences[k].path : k \in 1..Len(experiences)} =
           {i \in 1..Len(candidates) :
                candidates[i].json.present \/ candidates[i].toml.present}
        /\ \A k, l \in 1..Len(experiences) :
                k < l => experiences[k].path < experiences[l].path
        /\ \A k \in 1..Len(experiences) :
                /\ experiences[k].id = SelectedFile(candidates[experiences[k].path]).id
                /\ experiences[k].type = SelectedFile(candidates[experiences[k].path]).type
    /\ rpc = "failed" =>
        /\ initError.at \in 1..Len(candidates)
        /\ candidates[initError.at].json.present \/ candidates[initError.at].toml.present

C8_Witness ==
    /\ Built
    /\ Len(candidates) = 2
    /\ ~candidates[1].json.present /\ ~candidates[1].toml.present
    /\ ~candidates[2].json.present /\ candidates[2].toml.present
    /\ Len(experiences) = 1
    /\ experiences[1].path = 2

\* C9 as stated: if any candidate directory has a config file that is present
\* but malformed, registry construction fails as a whole and yields no
\* experience list.
C9_AnyMalformedConfigIsFatal ==
    (rpc # "start" /\ \E i \in 1..Len(candidates) :
                        Malformed(candidates[i].json) \/ Malformed(candidates[i].toml))
    => (rpc = "failed" /\ experiences = <<>>)

\* C9, amended: if the config file the loader reads in some candidate
\* directory (config.json when present, else config.toml) is malformed,
\* registry construction fails as a whole and yields no experience list,
\* wherever the bad candidate stands and however many valid ones precede it.
C9_MalformedSelectedConfigIsFatal ==
    (rpc # "start" /\ \E i \in 1..Len(candidates) :
                        Malformed(SelectedFile(candidates[i])))
    => (rpc = "failed" /\ experiences = <<>> /\ ~index.written)

C9_Witness ==
    /\ rpc = "failed"
    /\ Len(candidates) = 2
    /\ ~Malformed(SelectedFile(candidates[1])) /\ candidates[1].json.present
    /\ Malformed(SelectedFile(candidates[2]))
    /\ initError.at = 2
    /\ initError.error = "KeyError"
    /\ experiences = <<>>

\* C10: when color generation is requested and computing the colors of one
\* experience fails (its wide image cannot be decoded), registry construction
\* still succeeds and that experience is in the registry without colors.
C10_GracefulColorDowngrade ==
    (/\ rpc # "start"
     /\ generate_colors
     /\ \A i \in 1..Len(candidates) : ~Malformed(SelectedFile(candidates[i])))
    => \A i \in 1..Len(candidates) :
         (/\ candidates[i].json.present \/ candidates[i].toml.present
          /\ candidates[i].wide = "undecodable"
          /\ candidates[i].thumb)
         => /\ rpc # "failed"
            /\ \E k \in 1..Len(experiences) :
                 experiences[k].path = i /\ experiences[k].colors = "unset"


\* Both reference images are in the directory.
HasBothImages(dir) == dir.wide # "absent" /\ dir.thumb

\* C11: an Experience has computed colors only if color generation was
\* requested and both wide.jpg and thumb.jpg exist in its directory; with
\* generation off or an image missing it has no colors, _calculate_colors is
\* never invoked for it, and it is left out of the CLI's color mapping.
C11_ColorsPresence ==
    /\ \A k \in 1..Len(experiences) :
         experiences[k].colors # "unset" =>
            (generate_colors /\ HasBothImages(candidates[experiences[k].path]))
    /\ \A path \in colorCalls :
         generate_colors /\ HasBothImages(candidates[path])
    /\ \A d \in colorOutput.data :
         /\ generate_colors /\ HasBothImages(candidates[d.from])
         /\ \E k \in 1..Len(experiences) :
              /\ experiences[k].path = d.from
              /\ experiences[k].id = d.id
              /\ experiences[k].colors # "unset"
    /\ colorOutput.written => generate_colors

C11_Witness ==
    /\ rpc = "dumped"
    /\ Len(experiences) = 2
    /\ experiences[1].id # experiences[2].id
    /\ HasBothImages(candidates[experiences[1].path])
    /\ experiences[1].colors = "computed"
    /\ candidates[experiences[2].path].wide = "ok"
    /\ ~candidates[experiences[2].path].thumb
    /\ experiences[2].colors = "unset"
    /\ colorCalls = {experiences[1].path}
    /\ colorOutput.data = {[id |-> experiences[1].id, from |-> experiences[1].path]}

StaticHas(dir, name) ==
    \E f \in staticOut.files : f.dir = dir /\ f.name = name

\* The last experience with this id for which P holds of its directory.
LastWith(id, P(_)) ==
    LET S == {k \in 1..Len(experiences) :
                experiences[k].id = id /\ P(candidates[experiences[k].path])}
    IN  CHOOSE k \in S : \A l \in S : l <= k

DirHasThumb(dir) == dir.thumb

DirHasWide(dir) == dir.wide # "absent"

DirHasStatic(dir) == dir.static

SomeWith(id, P(_)) ==
    \E k \in 1..Len(experiences) :
        experiences[k].id = id /\ P(candidates[experiences[k].path])

\* C12 as stated: after assembly, for every experience, thumbs/<id>.jpg exists
\* iff the experience has thumb.jpg, wide/<id>.jpg iff it has wide.jpg and
\* experiences/<id> iff it has a controls static directory.
C12_AssetsPerExperience ==
    rpc \in {"assembled", "dumped"} =>
        \A k \in 1..Len(experiences) :
            LET dir == candidates[experiences[k].path]
                id == experiences[k].id
            IN  /\ StaticHas("thumbs", IconName(id)) <=> dir.thumb
                /\ StaticHas("wide", IconName(id)) <=> (dir.wide # "absent")
                /\ StaticHas("experiences", id) <=> dir.static

\* C12, amended: after assembly, for every experience id, thumbs/<id>.jpg
\* exists iff some experience with that id has thumb.jpg (and is the copy of
\* the last such one), wide/<id>.jpg likewise for wide.jpg, and
\* experiences/<id> iff some experience with that id has a controls static
\* directory; so for an experience whose id no other experience shares each
\* file exists iff the experience has the asset.  A missing asset never makes
\* the assembly fail: it fails only on an already existing destination.
C12_AssetsPerId ==
    /\ rpc \in {"assembled", "dumped"} =>
        /\ staticOut.error = "none"
        /\ \A k \in 1..Len(experiences) :
             LET id == experiences[k].id IN
             /\ StaticHas("thumbs", IconName(id)) <=> SomeWith(id, DirHasThumb)
             /\ SomeWith(id, DirHasThumb) =>
                    [dir |-> "thumbs", name |-> IconName(id),
                     from |-> experiences[LastWith(id, DirHasThumb)].path]
                        \in staticOut.files
             /\ StaticHas("wide", IconName(id)) <=> SomeWith(id, DirHasWide)
             /\ SomeWith(id, DirHasWide) =>
                    [dir |-> "wide", name |-> IconName(id),
                     from |-> experiences[LastWith(id, DirHasWide)].path]
                        \in staticOut.files
             /\ StaticHas("experiences", id) <=> SomeWith(id, DirHasStatic)
        /\ \A f \in staticOut.files :
             \E k \in 1..Len(experiences) :
                /\ experiences[k].path = f.from
                /\ f.name \in {experiences[k].id, IconName(experiences[k].id)}
    /\ rpc = "assemble_failed" =>
        \/ staticOut.error = "mkdir"
        \/ /\ staticOut.error = "copytree"
           /\ \E k, l \in 1..Len(experiences) :
                /\ k < l
                /\ experiences[k].id = experiences[l].id
                /\ candidates[experiences[k].path].static
                /\ candidates[experiences[l].path].static

C12_Witness ==
    /\ rpc = "assembled"
    /\ Len(experiences) = 2
    /\ experiences[1].id = "alpha" /\ experiences[2].id = "beta"
    /\ LET d1 == candidates[experiences[1].path]
           d2 == candidates[experiences[2].path]
       IN  /\ d1.thumb /\ d1.wide = "absent" /\ ~d1.static
           /\ ~d2.thumb /\ d2.wide = "ok" /\ d2.static
    /\ staticOut.files =
         {[dir |-> "thumbs", name |-> "alpha.jpg", from |-> experiences[1].path],
          [dir |-> "wide", name |-> "beta.jpg", from |-> experiences[2].path],
          [dir |-> "experiences", name |-> "beta", from |-> experiences[2].path]}


-----------------------------------------------------------------------------
(* Properties of the color synthesis *)

\* C13: with channels as fixed-point numbers, the primary saturation is
\* min(s, 0.74), the secondary-dark saturation max(that - 0.15, 0) and the
\* secondary-light saturation min(that * 1.5, 0.9), both from the clamped
\* value; for s = 0.9 they are exactly 0.74, 0.59 and 0.9, whatever the hue
\* and lightness.
C13_SaturationFormula ==
    (cpc = "done" /\ hsl \in DominantColors) =>
        LET clamped == IF hsl.s > 18870 THEN 18870 ELSE hsl.s IN
        /\ computed.primary.s = clamped
        /\ computed.secondary_dark.s = (IF clamped > 3825 THEN clamped - 3825 ELSE 0)
        /\ computed.secondary_light.s =
              (IF 3 * clamped > 2 * 22950 THEN 22950 ELSE (3 * clamped) \div 2)
        /\ hsl.s = Percent(90) =>
              /\ computed.primary.s = Percent(74)
              /\ computed.secondary_dark.s = Percent(59)
              /\ computed.secondary_light.s = Percent(90)

C13_Witness ==
    /\ cpc = "done"
    /\ hsl.h = Percent(50)
    /\ hsl.s = Percent(90)
    /\ computed.primary.s = 18870
    /\ computed.secondary_dark.s = 15045
    /\ computed.secondary_light.s = 22950

\* C14: with channels as fixed-point numbers, for every base hue h in [0, 1)
\* the secondary-dark hue is (h + 0.1) mod 1 and the secondary-light hue is
\* (h + 0.18) mod 1, both in [0, 1), and the primary hue is h; base hue 0.95
\* gives 0.05 and 0.13.
C14_HueWraparound ==
    (cpc = "done" /\ hsl \in DominantColors /\ hsl.h < One) =>
        LET Wrapped(x) == IF x >= 25500 THEN x - 25500 ELSE x IN
        /\ computed.secondary_dark.h = Wrapped(hsl.h + 2550)
        /\ computed.secondary_light.h = Wrapped(hsl.h + 4590)
        /\ computed.secondary_dark.h \in 0..(One - 1)
        /\ computed.secondary_light.h \in 0..(One - 1)
        /\ computed.primary.h = hsl.h
        /\ hsl.h = Percent(95) =>
              /\ computed.secondary_dark.h = Percent(5)
              /\ computed.secondary_light.h = Percent(13)

C14_Witness ==
    /\ cpc = "done"
    /\ hsl.h = Percent(95)
    /\ computed.primary.h = 24225
    /\ computed.secondary_dark.h = 1275
    /\ computed.secondary_light.h = 3315

-----------------------------------------------------------------------------
(* Properties of staging *)

ExcludedDirectoryNames == {".git", "build", ".idea"}

\* C15: after the stage-source step the workspace holds no copy of a .git,
\* build or .idea directory of the source tree, at any depth, and holds every
\* other entry of the source tree, symbolic links as links.
C15_StagingExclusion ==
    (spc = "copied" /\ srcTree # {}) =>
        /\ \A e \in wsTree :
             ~(e.kind = "dir" /\ e.path[Len(e.path)] \in ExcludedDirectoryNames)
        /\ \A e \in srcTree :
             (\A i \in 1..Len(e.path) : e.path[i] \notin ExcludedDirectoryNames)
                => e \in wsTree


-----------------------------------------------------------------------------
(* Properties of id collisions and of the generated-controls directory *)

LinkRan == rpc \notin {"start", "failed", "constructed"}

LinkOk == LinkRan /\ rpc # "link_failed"

SharedId == \E k, l \in 1..Len(experiences) : k < l /\ experiences[k].id = experiences[l].id

\* Two experiences of one id that both have a controls source directory.
CollidingLinks ==
    \E k, l \in 1..Len(experiences) :
        k < l /\ experiences[k].id = experiences[l].id /\ HasLib(k) /\ HasLib(l)

\* Two experiences of one id that both have a controls static directory.
CollidingStatic ==
    \E k, l \in 1..Len(experiences) :
        /\ k < l /\ experiences[k].id = experiences[l].id
        /\ candidates[experiences[k].path].static
        /\ candidates[experiences[l].path].static

\* C16 as stated: when two experiences of one build share an id, the
\* link-controls stage does not fail; both are processed and the later one in
\* list order wins for that id.
C16_LastWriterWins ==
    (LinkRan /\ genExists /\ SharedId) =>
        /\ LinkOk
        /\ index.map = ExpectedMap(TrueScrubbingVideo)

\* C16, amended: when two experiences share an id, the link-controls stage
\* fails, writing no index module, exactly when two of them both have a
\* controls source directory (the second link's name is taken); otherwise both
\* are processed and their entries are emitted in list order, so that the
\* later entry wins in the Map.  Likewise static-asset assembly fails exactly
\* when two of them both have a controls static directory.
C16_IdCollision ==
    /\ (LinkRan /\ genExists /\ SharedId) =>
          /\ LinkOk <=> ~CollidingLinks
          /\ ~LinkOk => ~index.written
          /\ LinkOk =>
                /\ index.imports = ExpectedImports
                /\ index.map = ExpectedMap(TrueScrubbingVideo)
    /\ (rpc \in {"assembled", "assemble_failed"} /\ staticOut.error # "mkdir" /\ SharedId) =>
          (rpc = "assemble_failed" <=> CollidingStatic)

C16_Witness ==
    /\ rpc = "linked"
    /\ Len(experiences) = 2
    /\ experiences[1].id = experiences[2].id
    /\ HasLib(1) /\ ~HasLib(2)
    /\ Len(index.map) = 2
    /\ index.map[2] = ScrubberEntry(experiences[2].id)

ExpectedLinks ==
    {[name |-> experiences[k].id, kind |-> "link", target |-> experiences[k].path] :
        k \in {i \in 1..Len(experiences) : HasLib(i)}}

\* C17 as stated: after the link-controls stage succeeds the generated-controls
\* directory holds exactly one link <id> per experience with a controls source
\* directory, pointing at it, and the index module, and nothing of what the
\* staged tree had there; and the stage succeeds whatever the staged tree held
\* at that location.
C17_RegeneratedFromAnything ==
    /\ LinkOk => genEntries = ExpectedLinks \cup {IndexFile}
    /\ (LinkRan /\ ~CollidingLinks) => LinkOk

\* C17, amended: the same content after success; the stage succeeds whatever
\* the staged generated-controls directory contained, provided the staged tree
\* has that directory and no two experiences with a controls source directory
\* share an id.
C17_RegeneratedFromScratch ==
    /\ LinkOk =>
          /\ genEntries = ExpectedLinks \cup {IndexFile}
          /\ \A k, l \in 1..Len(experiences) :
                (k # l /\ HasLib(k) /\ HasLib(l)) => experiences[k].id # experiences[l].id
    /\ (LinkRan /\ genExists /\ ~CollidingLinks) => LinkOk

C17_Witness ==
    /\ rpc = "linked"
    /\ Len(experiences) = 2
    /\ experiences[1].id = "alpha" /\ HasLib(1)
    /\ ~HasLib(2)
    /\ genEntries = {[name |-> "alpha", kind |-> "link", target |-> 1], IndexFile}


-----------------------------------------------------------------------------
(* Frame properties of build() *)

\* What a stage of build() puts under the workspace.
StageItem(stage) ==
    CASE stage = "stage_source" -> "source"
      [] stage = "link_controls" -> "generated"
      [] stage = "yarn_build" -> "build"
      [] stage = "add_static_assets" -> "static"
      [] OTHER -> "published"

C19_InputsReadOnly ==
    /\ inputWrites = {}
    /\ \A b \in Builders : \A i \in 1..Len(trace[b]) : trace[b][i].path \in {"tmp", "out"}

C19_Witness ==
    \E b, c \in Builders :
        /\ ~debug[b] /\ pc[b] = "returned"
        /\ {"copy", "link", "compile", "rmtemp"} \subseteq ops[b]
        /\ debug[c] /\ pc[c] = "raised" /\ err[c] = "link_controls"
        /\ "link" \in ops[c]
        /\ inputWrites = {}

====
